---- MODULE Spec2Model ----
(***************************************************************************)
(* Model of the PR Summarizer microservice (assignment-3-python/main.py). *)
(*                                                                         *)
(* One endpoint, POST /summarize.  The framework validates the JSON body   *)
(* against PRInput, the handler summarize_pr issues one blocking           *)
(* chat-completion call through the process-wide client, and either        *)
(* returns {"summary": ...} or converts any exception into HTTP 500.       *)
(*                                                                         *)
(* Text that the code inspects character by character (the description,    *)
(* the completion's content) is a sequence of one-character strings, so    *)
(* that length validation, interpolation and strip() are computed, not     *)
(* assumed.  Text that the code only passes along (model name, system      *)
(* prompt, exception messages) is a TLA+ string.                           *)
(*                                                                         *)
(* The handler is a sync def, which the framework runs on a thread pool:   *)
(* several requests are in flight at once and interleave at the blocking   *)
(* provider call.                                                          *)
(***************************************************************************)
EXTENDS Integers, Sequences, FiniteSets, TLC

\* ------------------------------------------------------------------ bounds

\* Number of requests in flight in one behaviour.
NumRequests == 2
\* Longest provider content enumerated exhaustively over Alphabet.
MaxContentLen == 3
\* Largest number of choices in a provider response.
MaxChoices == 2

\* ------------------------------------------------------- program constants

\* Field(..., min_length=10, max_length=1000)
min_length == 10
max_length == 1000
\* max_tokens=50
max_tokens == 50
\* temperature=0.5, as the rational 1/2 (numerator, denominator)
temperature == <<1, 2>>
\* model="gpt-3.5-turbo"
model == "gpt-3.5-turbo"
SystemContent == "You are a helpful assistant that summarizes PR descriptions in a concise and professional manner."
\* The constant part of f"Summarize this PR: {data.description}"
UserPrefix == <<"S","u","m","m","a","r","i","z","e"," ","t","h","i","s"," ","P","R",":"," ">>
\* os.getenv("OPENAI_API_KEY")
OPENAI_API_KEY == "sk-from-environment"

\* -------------------------------------------------------------- base types

\* Python's None.
None == [tag |-> "None"]

\* Characters str.strip() removes (the ones that occur in this model).
Whitespace == {" ", "\t", "\n"}

Requests == 1..NumRequests

\* ------------------------------------------------------------ input domain

\* A description of n characters whose first and last character is `pad`.
MakeDescription(pad, n) == [i \in 1..n |-> IF i \in {1, n} THEN pad ELSE "x"]

\* Lengths around both limits of the field, and the empty string.
DescriptionLengths ==
    {0, min_length - 1, min_length, min_length + 1,
     max_length - 1, max_length, max_length + 1}

Descriptions == {MakeDescription(pad, n) : pad \in {" ", "a"}, n \in DescriptionLengths}

\* JSON request bodies: objects with or without the description key, and
\* with or without a key the schema does not declare.
Bodies ==
    {[description |-> d] : d \in Descriptions}
    \cup {[description |-> d, title |-> <<"t">>] : d \in Descriptions}
    \cup {[title |-> <<"t">>]}

CoreBodies ==
    {[description |-> MakeDescription(" ", min_length)],
     [description |-> MakeDescription("a", min_length - 1)]}

\* The first request ranges over the full input sets; the requests running
\* concurrently with it range over the core sets.
BodiesFor(r) == IF r = 1 THEN Bodies ELSE CoreBodies

Alphabet == {" ", "a"}

RECURSIVE SeqsUpTo(_, _)
SeqsUpTo(S, n) ==
    IF n = 0 THEN {<<>>}
    ELSE LET shorter == SeqsUpTo(S, n - 1)
         IN  shorter \cup {Append(s, c) : s \in {t \in shorter : Len(t) = n - 1}, c \in S}

\* The documented example completion, "  Adds logging.  ".
ExampleContent == <<" "," ","A","d","d","s"," ","l","o","g","g","i","n","g","."," "," ">>

ContentTexts == SeqsUpTo(Alphabet, MaxContentLen) \cup {ExampleContent, <<"\n","a","\t">>}

\* message.content is a str or None.
Contents == {[tag |-> "str", chars |-> t] : t \in ContentTexts} \cup {None}

Choice(c) == [message |-> [content |-> c]]

\* Choices after the first one.
LaterChoice == Choice([tag |-> "str", chars |-> <<"l","a","t","e","r">>])

\* Provider responses: 0..MaxChoices choices, the first with any content.
ChatCompletions ==
    {[choices |-> <<>>]}
    \cup {[choices |-> [i \in 1..n |-> IF i = 1 THEN Choice(c) ELSE LaterChoice]] :
            c \in Contents, n \in 1..MaxChoices}

CoreChatCompletions ==
    {[choices |-> <<Choice([tag |-> "str", chars |-> <<" ","a"," ">>])>>],
     [choices |-> <<>>]}

\* Exceptions the provider call raises: network, authentication, rate
\* limiting, timeout, and an exception constructed without arguments.
ProviderErrors ==
    {[type |-> "APIConnectionError", args |-> <<"Connection error.">>],
     [type |-> "AuthenticationError", args |-> <<"Incorrect API key provided.">>],
     [type |-> "RateLimitError", args |-> <<"Rate limit reached.">>],
     [type |-> "APITimeoutError", args |-> <<"Request timed out.">>],
     [type |-> "Exception", args |-> <<>>]}

CoreProviderErrors ==
    {[type |-> "RateLimitError", args |-> <<"Rate limit reached.">>]}

ChatCompletionsFor(r) == IF r = 1 THEN ChatCompletions ELSE CoreChatCompletions

ProviderErrorsFor(r) == IF r = 1 THEN ProviderErrors ELSE CoreProviderErrors

\* -------------------------------------------------------------- the state

VARIABLES
    client,     \* the process-wide OpenAI client (its credential)
    pc,         \* per request: "idle", "handler", "awaiting", "done"
    body,       \* per request: the JSON body received, or None
    data,       \* per request: the validated PRInput, or None
    outbound,   \* per request: the chat-completion calls made, in order
    result,     \* per request: how its provider call ended, or None
    response    \* per request: the HTTP response sent, or None

vars == <<client, pc, body, data, outbound, result, response>>

\* ------------------------------------------------ PRInput (lines 18-19)

\* Variant of PRInput without the upper limit (max_length dropped).
PRInput_NoMaxLength(b) ==
    IF "description" \notin DOMAIN b
    THEN [ok |-> FALSE, errors |-> "missing"]
    ELSE IF Len(b.description) < min_length
    THEN [ok |-> FALSE, errors |-> "string_too_short"]
    ELSE [ok |-> TRUE, data |-> [description |-> b.description]]

\* Variant of PRInput that keeps undeclared keys on the model (extra="allow").
PRInput_AllowExtra(b) ==
    IF "description" \notin DOMAIN b
    THEN [ok |-> FALSE, errors |-> "missing"]
    ELSE IF Len(b.description) < min_length
    THEN [ok |-> FALSE, errors |-> "string_too_short"]
    ELSE IF Len(b.description) > max_length
    THEN [ok |-> FALSE, errors |-> "string_too_long"]
    ELSE [ok |-> TRUE, data |-> b]

\* Validation of a JSON body against PRInput: description is required and
\* its length in characters must lie in [min_length, max_length].  Keys the
\* model does not declare are ignored (the BaseModel default), and the
\* description is kept as received: no stripping is configured.
PRInput(b) ==
    IF "description" \notin DOMAIN b
    THEN [ok |-> FALSE, errors |-> "missing"]
    ELSE IF Len(b.description) < min_length
    THEN [ok |-> FALSE, errors |-> "string_too_short"]
    ELSE IF Len(b.description) > max_length
    THEN [ok |-> FALSE, errors |-> "string_too_long"]
    ELSE [ok |-> TRUE, data |-> [description |-> b.description]]

\* Variant in which a validation failure is reported like a handler failure.
RequestValidationError_As500(errors) ==
    [status_code |-> 500, content |-> [detail |-> errors]]

\* The framework's answer to a body that fails validation; summarize_pr is
\* not entered.
RequestValidationError(errors) ==
    [status_code |-> 422, content |-> [detail |-> errors]]

\* ------------------------------------------- summarize_pr (lines 22-44)

RECURSIVE lstrip(_)
lstrip(s) ==
    IF s = <<>> THEN s
    ELSE IF Head(s) \in Whitespace THEN lstrip(Tail(s)) ELSE s

RECURSIVE rstrip(_)
rstrip(s) ==
    IF s = <<>> THEN s
    ELSE IF s[Len(s)] \in Whitespace THEN rstrip(SubSeq(s, 1, Len(s) - 1)) ELSE s

\* Variant of strip() that trims the left end only.
strip_LeftOnly(s) == lstrip(s)

\* str.strip()
strip(s) == rstrip(lstrip(s))

\* Variant of ChatRequest that trims the description before interpolating.
ChatRequest_Trimmed(d) ==
    [model |-> model,
     messages |-> <<[role |-> "system", content |-> SystemContent],
                    [role |-> "user", content |-> UserPrefix \o strip(d.description)]>>,
     max_tokens |-> max_tokens,
     temperature |-> temperature]

\* Variant of ChatRequest whose token cap follows the input's length.
ChatRequest_ScaledTokens(d) ==
    [model |-> model,
     messages |-> <<[role |-> "system", content |-> SystemContent],
                    [role |-> "user", content |-> UserPrefix \o d.description]>>,
     max_tokens |-> IF Len(d.description) < max_tokens THEN Len(d.description) ELSE max_tokens,
     temperature |-> temperature]

\* The keyword arguments of client.chat.completions.create (lines 24-38).
ChatRequest(d) ==
    [model |-> model,
     messages |-> <<[role |-> "system", content |-> SystemContent],
                    [role |-> "user", content |-> UserPrefix \o d.description]>>,
     max_tokens |-> max_tokens,
     temperature |-> temperature]

\* str(e) of an exception: its single argument, or "" when it has none.
Str(e) == IF e.args = <<>> THEN "" ELSE e.args[1]

\* Variant of ExtractSummary that answers a malformed completion with an
\* empty summary instead of raising.
ExtractSummary_Lenient(completion) ==
    IF completion.choices = <<>>
    THEN [kind |-> "return", value |-> [summary |-> <<>>]]
    ELSE LET content == completion.choices[1].message.content
         IN  IF content = None
             THEN [kind |-> "return", value |-> [summary |-> <<>>]]
             ELSE [kind |-> "return", value |-> [summary |-> strip(content.chars)]]

\* Lines 40-41: response.choices[0].message.content.strip() and the return
\* value, or the exception the expression raises.
ExtractSummary(completion) ==
    IF completion.choices = <<>>
    THEN [kind |-> "raise",
          value |-> [type |-> "IndexError", args |-> <<"list index out of range">>]]
    ELSE LET content == completion.choices[1].message.content
         IN  IF content = None
             THEN [kind |-> "raise",
                   value |-> [type |-> "AttributeError",
                              args |-> <<"'NoneType' object has no attribute 'strip'">>]]
             ELSE [kind |-> "return", value |-> [summary |-> strip(content.chars)]]

\* Variant of the except clause that hides the exception's text.
HTTPException500_Generic(e) ==
    [status_code |-> 500, content |-> [detail |-> "Internal Server Error"]]

\* Lines 43-44: raise HTTPException(status_code=500, detail=str(e))
HTTPException500(e) ==
    [status_code |-> 500, content |-> [detail |-> Str(e)]]

\* The rest of the try block once the provider call has ended with
\* `outcome` (a returned completion or a raised exception), and the except
\* clause around all of it.
AfterCall(outcome) ==
    IF outcome.kind = "raise"
    THEN HTTPException500(outcome.value)
    ELSE LET x == ExtractSummary(outcome.value)
         IN  IF x.kind = "raise"
             THEN HTTPException500(x.value)
             ELSE [status_code |-> 200, content |-> x.value]

\* ------------------------------------------------------------ the actions

Init ==
    /\ client = [api_key |-> OPENAI_API_KEY]
    /\ pc = [r \in Requests |-> "idle"]
    /\ body = [r \in Requests |-> None]
    /\ data = [r \in Requests |-> None]
    /\ outbound = [r \in Requests |-> <<>>]
    /\ result = [r \in Requests |-> None]
    /\ response = [r \in Requests |-> None]

\* POST /summarize arrives with JSON body b; the framework validates it and
\* either answers 422 itself or enters summarize_pr with the PRInput.
Receive(r, b) ==
    /\ pc[r] = "idle"
    /\ body' = [body EXCEPT ![r] = b]
    /\ LET v == PRInput(b)
       IN  IF v.ok
           THEN /\ data' = [data EXCEPT ![r] = v.data]
                /\ pc' = [pc EXCEPT ![r] = "handler"]
                /\ UNCHANGED response
           ELSE /\ response' = [response EXCEPT ![r] = RequestValidationError(v.errors)]
                /\ pc' = [pc EXCEPT ![r] = "done"]
                /\ UNCHANGED data
    /\ UNCHANGED <<client, outbound, result>>

\* summarize_pr issues the blocking call (line 24) and waits.
CallProvider(r) ==
    /\ pc[r] = "handler"
    /\ outbound' = [outbound EXCEPT ![r] = Append(@, ChatRequest(data[r]))]
    /\ pc' = [pc EXCEPT ![r] = "awaiting"]
    /\ UNCHANGED <<client, body, data, result, response>>

\* Variant of Complete that calls the provider again after a failure.
Complete_Retry(r, outcome) ==
    /\ result' = [result EXCEPT ![r] = outcome]
    /\ IF outcome.kind = "raise" /\ Len(outbound[r]) < 2
       THEN /\ pc' = [pc EXCEPT ![r] = "handler"]
            /\ UNCHANGED response
       ELSE /\ response' = [response EXCEPT ![r] = AfterCall(outcome)]
            /\ pc' = [pc EXCEPT ![r] = "done"]
    /\ UNCHANGED <<client, body, data, outbound>>

\* Variant of Complete in which the provider's result is kept in one
\* module-level slot shared by all requests: a request reads the result
\* another request stored last, when there is one.
Complete_SharedResult(r, outcome) ==
    /\ result' = [result EXCEPT ![r] = outcome]
    /\ response' = [response EXCEPT ![r] =
            IF \E q \in Requests \ {r} : result[q] # None
            THEN AfterCall(result[CHOOSE q \in Requests \ {r} : result[q] # None])
            ELSE AfterCall(outcome)]
    /\ pc' = [pc EXCEPT ![r] = "done"]
    /\ UNCHANGED <<client, body, data, outbound>>

\* The provider call of request r has ended; the handler runs to its end.
Complete(r, outcome) ==
    /\ result' = [result EXCEPT ![r] = outcome]
    /\ response' = [response EXCEPT ![r] = AfterCall(outcome)]
    /\ pc' = [pc EXCEPT ![r] = "done"]
    /\ UNCHANGED <<client, body, data, outbound>>

ProviderReturn(r, completion) ==
    /\ pc[r] = "awaiting"
    /\ Complete(r, [kind |-> "return", value |-> completion])

ProviderRaise(r, e) ==
    /\ pc[r] = "awaiting"
    /\ Complete(r, [kind |-> "raise", value |-> e])

Next ==
    \E r \in Requests :
        \/ \E b \in BodiesFor(r) : Receive(r, b)
        \/ CallProvider(r)
        \/ \E completion \in ChatCompletionsFor(r) : ProviderReturn(r, completion)
        \/ \E e \in ProviderErrorsFor(r) : ProviderRaise(r, e)

Spec == Init /\ [][Next]_vars

\* ------------------------------------------------------------- properties

\* Vocabulary of the properties, stated on the recorded inputs and outputs.

Received(r) == body[r] # None

HasDescription(r) == Received(r) /\ "description" \in DOMAIN body[r]

\* The description of r is shorter than 10 or longer than 1000 characters.
LengthOutOfRange(r) ==
    HasDescription(r) /\ (Len(body[r].description) < 10 \/ Len(body[r].description) > 1000)

\* The description of r has between 10 and 1000 characters, both included.
LengthInRange(r) ==
    HasDescription(r) /\ Len(body[r].description) >= 10 /\ Len(body[r].description) <= 1000

Responded(r) == response[r] # None

Status(r) == response[r].status_code

ProviderRaised(r) == result[r] # None /\ result[r].kind = "raise"

ProviderReturned(r) == result[r] # None /\ result[r].kind = "return"

\* A completion with no choice, or whose first choice has content None.
Malformed(completion) ==
    \/ Len(completion.choices) = 0
    \/ completion.choices[1].message.content = None

\* The provider call of r failed, or returned a malformed completion.
CallFailed(r) ==
    \/ ProviderRaised(r)
    \/ ProviderReturned(r) /\ Malformed(result[r].value)

\* The text of the first choice of the completion returned to r.
FirstContent(r) == result[r].value.choices[1].message.content.chars

\* s is c without its leading and trailing whitespace: a contiguous slice
\* of c that neither starts nor ends with whitespace, outside of which c
\* holds whitespace only.
IsTrimOf(s, c) ==
    \E i \in 1..(Len(c) + 1) : \E j \in 0..Len(c) :
        /\ s = SubSeq(c, i, j)
        /\ \A k \in 1..Len(c) : (k < i \/ k > j) => c[k] \in {" ", "\t", "\n"}
        /\ s # <<>> => (s[1] \notin {" ", "\t", "\n"} /\ s[Len(s)] \notin {" ", "\t", "\n"})

\* "Summarize this PR: "
ClaimedPrefix == <<"S","u","m","m","a","r","i","z","e"," ","t","h","i","s"," ","P","R",":"," ">>

\* C1: a request whose description has fewer than 10 or more than 1000
\* characters is rejected by validation, and no outbound chat-completion
\* call is ever made for it.
C1_OutOfRangeRejectedWithoutCall ==
    \A r \in Requests :
        LengthOutOfRange(r) =>
            /\ outbound[r] = <<>>
            /\ data[r] = None
            /\ result[r] = None
            /\ Responded(r) /\ Status(r) = 422

\* One request one character too long and one a character too short have
\* both been answered.
C1_Witness ==
    /\ HasDescription(1) /\ Len(body[1].description) = 1001 /\ pc[1] = "done"
    /\ HasDescription(2) /\ Len(body[2].description) = 9 /\ pc[2] = "done"

\* C2: a request whose description has 10 to 1000 characters (limits
\* included) makes exactly one outbound call, whose user message is the
\* fixed prefix followed by the description exactly as received.
C2_InRangeOneCallVerbatim ==
    \A r \in Requests :
        LengthInRange(r) =>
            /\ Len(outbound[r]) <= 1
            /\ pc[r] \in {"awaiting", "done"} =>
                /\ Len(outbound[r]) = 1
                /\ outbound[r][1].messages[2].role = "user"
                /\ outbound[r][1].messages[2].content = ClaimedPrefix \o body[r].description

\* A description of exactly 1000 characters and one of exactly 10, both
\* starting and ending with a blank, have been handled to the end.
C2_Witness ==
    /\ HasDescription(1) /\ Len(body[1].description) = 1000
    /\ body[1].description[1] = " " /\ body[1].description[1000] = " "
    /\ HasDescription(2) /\ Len(body[2].description) = 10
    /\ body[2].description[1] = " " /\ body[2].description[10] = " "
    /\ pc[1] = "done" /\ pc[2] = "done"

\* C3: whenever the provider call of a validated request raises, whatever
\* the kind of error, or returns a malformed completion, the endpoint
\* answers HTTP 500 and no summary; for a raised error the detail is the
\* error's string representation.
C3_AnyProviderErrorGives500 ==
    \A r \in Requests :
        /\ ProviderRaised(r) =>
            /\ Responded(r) /\ Status(r) = 500
            /\ response[r].content = [detail |-> Str(result[r].value)]
        /\ CallFailed(r) =>
            /\ Responded(r) /\ Status(r) = 500
            /\ "summary" \notin DOMAIN response[r].content

\* An authentication failure and a rate-limit failure have both been answered.
C3_Witness ==
    /\ ProviderRaised(1) /\ result[1].value.type = "AuthenticationError" /\ pc[1] = "done"
    /\ ProviderRaised(2) /\ result[2].value.type = "RateLimitError" /\ pc[2] = "done"

\* C4: when the provider call succeeds, the summary returned is the first
\* choice's content without its leading and trailing whitespace ("  Adds
\* logging.  " gives "Adds logging."): later choices play no part and
\* whitespace inside the text stays.
C4_SummaryIsTrimmedFirstChoice ==
    \A r \in Requests :
        (ProviderReturned(r) /\ ~Malformed(result[r].value)) =>
            /\ Responded(r) /\ Status(r) = 200
            /\ "summary" \in DOMAIN response[r].content
            /\ IsTrimOf(response[r].content.summary, FirstContent(r))
            /\ FirstContent(r) = <<" "," ","A","d","d","s"," ","l","o","g","g","i","n","g","."," "," ">>
                => response[r].content.summary = <<"A","d","d","s"," ","l","o","g","g","i","n","g",".">>

\* The documented example was returned as the first of two choices.
C4_Witness ==
    /\ ProviderReturned(1)
    /\ Len(result[1].value.choices) = 2
    /\ ~Malformed(result[1].value)
    /\ FirstContent(1) = <<" "," ","A","d","d","s"," ","l","o","g","g","i","n","g","."," "," ">>
    /\ pc[1] = "done"

\* C5 as stated: every accepted request carries only the key description,
\* and every 200 response only the key summary.
C5_Original_OnlyDeclaredKeys ==
    \A r \in Requests :
        /\ data[r] # None => DOMAIN body[r] = {"description"}
        /\ (Responded(r) /\ Status(r) = 200) => DOMAIN response[r].content = {"summary"}

\* C5 as amended: the validated input handed to the handler carries only
\* the field description (other keys of an accepted request body are
\* dropped, not refused), and every 200 response carries only the key
\* summary.
C5_OnlyDeclaredFieldsReachHandler ==
    \A r \in Requests :
        /\ data[r] # None =>
            /\ "description" \in DOMAIN body[r]
            /\ DOMAIN data[r] = {"description"}
        /\ (Responded(r) /\ Status(r) = 200) => DOMAIN response[r].content = {"summary"}

\* A request body with an undeclared key was accepted and answered 200.
C5_Witness ==
    /\ Received(1) /\ DOMAIN body[1] = {"description", "title"}
    /\ data[1] # None
    /\ Responded(1) /\ Status(1) = 200

\* C6: a request rejected for its description's length gets the 422
\* validation response and never a 500; a 500 is only ever the answer to a
\* request that passed validation and then failed inside the handler.
C6_ValidationAndHandlerFailuresApart ==
    \A r \in Requests :
        /\ (LengthOutOfRange(r) /\ Responded(r)) => (Status(r) = 422 /\ Status(r) # 500)
        /\ (Responded(r) /\ Status(r) = 500) =>
            /\ LengthInRange(r)
            /\ data[r] # None
            /\ CallFailed(r)

\* One request failed in the handler while another was refused by validation.
C6_Witness ==
    /\ Responded(1) /\ Status(1) = 500
    /\ Responded(2) /\ Status(2) = 422 /\ LengthOutOfRange(2)

\* The description r sent, or None when its body has none.
DescriptionOf(r) ==
    IF HasDescription(r) THEN [tag |-> "str", chars |-> body[r].description] ELSE None

\* The response of r is accounted for by r's own body and r's own provider
\* result alone.
OwnInputsExplainResponse(r) ==
    /\ Status(r) = 422 =>
        /\ result[r] = None /\ outbound[r] = <<>>
        /\ ~LengthInRange(r)
    /\ Status(r) = 500 =>
        /\ LengthInRange(r) /\ CallFailed(r)
        /\ ProviderRaised(r) => response[r].content = [detail |-> Str(result[r].value)]
    /\ Status(r) = 200 =>
        /\ LengthInRange(r)
        /\ ProviderReturned(r) /\ ~Malformed(result[r].value)
        /\ IsTrimOf(response[r].content.summary, FirstContent(r))

\* C7: requests are independent and stateless.  Under every interleaving,
\* the response to a request is explained by its own description and the
\* result of its own outbound call, two requests that agree on both get
\* the same response, every outbound call of a request carries that
\* request's description, and the process-wide client keeps the credential
\* it was given at startup.
C7_RequestsIndependentClientImmutable ==
    /\ client = [api_key |-> "sk-from-environment"]
    /\ \A r \in Requests :
        /\ Responded(r) => OwnInputsExplainResponse(r)
        /\ \A i \in 1..Len(outbound[r]) :
            outbound[r][i].messages[2].content = ClaimedPrefix \o body[r].description
    /\ \A r1 \in Requests : \A r2 \in Requests :
        (/\ Responded(r1) /\ Responded(r2)
         /\ DescriptionOf(r1) = DescriptionOf(r2)
         /\ result[r1] = result[r2])
            => response[r1] = response[r2]

\* Two requests sent the same body; the call of one failed and the call of
\* the other returned, and each was answered according to its own result.
C7_Witness ==
    /\ ProviderRaised(2) /\ Responded(2) /\ Status(2) = 500
    /\ ProviderReturned(1) /\ Responded(1) /\ Status(1) = 200
    /\ body[1] = body[2]

\* C8: there is no retry.  A request makes at most one outbound call; once
\* its call has failed the request is over, with exactly one call made, an
\* HTTP 500 as its answer and no partial result.
C8_NoRetryAfterFailure ==
    \A r \in Requests :
        /\ Len(outbound[r]) <= 1
        /\ CallFailed(r) =>
            /\ pc[r] = "done"
            /\ Len(outbound[r]) = 1
            /\ Responded(r) /\ Status(r) = 500
            /\ DOMAIN response[r].content = {"detail"}

\* A call that timed out and a call that hit the rate limit have both ended
\* their requests.
C8_Witness ==
    /\ ProviderRaised(1) /\ result[1].value.type = "APITimeoutError" /\ pc[1] = "done"
    /\ ProviderRaised(2) /\ pc[2] = "done"
    /\ Len(outbound[1]) = 1 /\ Len(outbound[2]) = 1

\* C9: a provider call that returns normally with a malformed completion
\* (no choices, or a first choice whose content is None) ends in HTTP 500
\* with the raised exception's text as detail, and a 200 response always
\* has a well-formed completion behind it.
C9_MalformedCompletionGives500 ==
    \A r \in Requests :
        /\ (ProviderReturned(r) /\ Len(result[r].value.choices) = 0) =>
            /\ Responded(r) /\ Status(r) = 500
            /\ response[r].content = [detail |-> "list index out of range"]
        /\ (/\ ProviderReturned(r)
            /\ Len(result[r].value.choices) > 0
            /\ result[r].value.choices[1].message.content = None) =>
            /\ Responded(r) /\ Status(r) = 500
            /\ response[r].content = [detail |-> "'NoneType' object has no attribute 'strip'"]
        /\ (Responded(r) /\ Status(r) = 200) =>
            /\ ProviderReturned(r)
            /\ ~Malformed(result[r].value)

\* One request got a first choice with content None (followed by a second
\* choice), another got no choice at all; both have been answered.
C9_Witness ==
    /\ ProviderReturned(1)
    /\ Len(result[1].value.choices) = 2
    /\ result[1].value.choices[1].message.content = None
    /\ pc[1] = "done"
    /\ ProviderReturned(2) /\ Len(result[2].value.choices) = 0 /\ pc[2] = "done"

\* The call the handler is documented to make for user text u.
ClaimedCall(u) ==
    [model |-> "gpt-3.5-turbo",
     messages |-> <<[role |-> "system",
                     content |-> "You are a helpful assistant that summarizes PR descriptions in a concise and professional manner."],
                    [role |-> "user", content |-> u]>>,
     max_tokens |-> 50,
     temperature |-> <<1, 2>>]

\* C10: every outbound call has the same shape whatever the input: two
\* messages, system then user, the fixed system instruction, model
\* "gpt-3.5-turbo", max_tokens 50, temperature 0.5; only the description
\* interpolated into the user message varies.
C10_OutboundCallShapeFixed ==
    \A r \in Requests : \A i \in 1..Len(outbound[r]) :
        /\ Len(outbound[r][i].messages) = 2
        /\ outbound[r][i] = ClaimedCall(ClaimedPrefix \o data[r].description)

\* Calls were made for a 1000-character and for a 10-character description.
C10_Witness ==
    /\ Len(outbound[1]) = 1 /\ Len(data[1].description) = 1000
    /\ Len(outbound[2]) = 1 /\ Len(data[2].description) = 10

====
